---- MODULE Spec2Model ----
(***************************************************************************)
(* The rs274/ngc line interpreter of TinyG (src/gcode.c): the parser state *)
(* `gc`, the tokenizer (next_statement, read_double), the two passes of    *)
(* gc_execute_line, the radius-to-offset arc solver and the calls made to  *)
(* the motion, spindle and settings collaborators.                         *)
(*                                                                         *)
(* Numbers.  A C double that the parser reads or stores is an exact        *)
(* rational [n, d] (d > 0, lowest terms): rounding is not modelled.  The   *)
(* arc solver works in an extended domain (see "Doubles" below) that keeps *)
(* NaN and the infinities, because the code's only arc error test is       *)
(* isnan().                                                                *)
(*                                                                         *)
(* Text.  A line is a sequence of one-character strings; textline[i] of    *)
(* the C code is CharAt(textline, i), and the terminating 0 is NUL.        *)
(***************************************************************************)
EXTENDS Integers, Sequences, FiniteSets, TLC

(***************************************************************************)
(* Rationals                                                               *)
(***************************************************************************)
Abs(i) == IF i < 0 THEN -i ELSE i

RECURSIVE GCD(_, _)
GCD(a, b) == IF b = 0 THEN a ELSE GCD(b, a % b)

\* The rational n/d in lowest terms with a positive denominator (d # 0).
RatBy(n, d, g) ==
  IF d < 0 THEN [n |-> (-n) \div g, d |-> (-d) \div g]
           ELSE [n |-> n \div g, d |-> d \div g]
Rat(n, d) == RatBy(n, d, GCD(Abs(n), Abs(d)))

RInt(i) == [n |-> i, d |-> 1]
RZero == RInt(0)
RAdd(a, b) == Rat(a.n * b.d + b.n * a.d, a.d * b.d)
RNeg(a) == [n |-> -a.n, d |-> a.d]
RSub(a, b) == RAdd(a, RNeg(b))
RMul(a, b) == Rat(a.n * b.n, a.d * b.d)
\* b # 0
RDiv(a, b) == Rat(a.n * b.d, a.d * b.n)
RLt(a, b) == a.n * b.d < b.n * a.d
RLe(a, b) == a.n * b.d <= b.n * a.d
RIsZero(a) == a.n = 0

\* trunc(): round toward zero, as an integer.
trunc(a) == IF a.n >= 0 THEN a.n \div a.d ELSE -((-a.n) \div a.d)

\* The integer square root of a natural number, and whether it is exact.
RECURSIVE ISqrtFrom(_, _)
ISqrtFrom(k, i) == IF (i + 1) * (i + 1) > k THEN i ELSE ISqrtFrom(k, i + 1)
ISqrt(k) == ISqrtFrom(k, 0)
IsSquare(k) == ISqrt(k) * ISqrt(k) = k

(***************************************************************************)
(* Doubles of the arc solver.  k = "q": the exact rational n/d;            *)
(* k = "irr": a finite irrational number (so nonzero; value not tracked);  *)
(* k = "fin": a finite number whose value is not tracked (a result of      *)
(* atan or hypot; the code never divides by one);                          *)
(* k = "inf": an infinity of sign n (0: sign not tracked); k = "nan".      *)
(***************************************************************************)
FQ(r) == [k |-> "q", n |-> r.n, d |-> r.d]
FIrr == [k |-> "irr", n |-> 0, d |-> 1]
FFin == [k |-> "fin", n |-> 0, d |-> 1]
FInf(s) == [k |-> "inf", n |-> s, d |-> 1]
FNaN == [k |-> "nan", n |-> 0, d |-> 1]
FRat(x) == [n |-> x.n, d |-> x.d]
FInt(i) == FQ(RInt(i))

isnan(x) == x.k = "nan"
isfinite(x) == x.k \in {"q", "irr", "fin"}
FIsZero(x) == x.k = "q" /\ x.n = 0
\* -1, 0, 1 when the sign is known; 2 when it is not tracked.
FSign(x) ==
  CASE x.k = "q" -> (IF x.n > 0 THEN 1 ELSE IF x.n < 0 THEN -1 ELSE 0)
    [] x.k = "inf" -> (IF x.n = 0 THEN 2 ELSE x.n)
    [] OTHER -> 2
SignMul(s, t) == IF s = 2 \/ t = 2 THEN 2 ELSE s * t
InfOf(s) == FInf(IF s = 2 THEN 0 ELSE s)

FNeg(x) ==
  CASE x.k = "q" -> FQ(RNeg(FRat(x)))
    [] x.k = "inf" -> FInf(-x.n)
    [] OTHER -> x

fabs(x) ==
  CASE x.k = "q" -> FQ(Rat(Abs(x.n), x.d))
    [] x.k = "inf" -> FInf(1)
    [] OTHER -> x

FAdd(x, y) ==
  CASE isnan(x) \/ isnan(y) -> FNaN
    [] x.k = "inf" /\ y.k = "inf" ->
         (IF x.n # 0 /\ x.n = y.n THEN x ELSE FNaN)
    [] x.k = "inf" -> x
    [] y.k = "inf" -> y
    [] x.k = "q" /\ y.k = "q" -> FQ(RAdd(FRat(x), FRat(y)))
    [] x.k = "q" /\ y.k = "irr" -> FIrr
    [] x.k = "irr" /\ y.k = "q" -> FIrr
    [] OTHER -> FFin

FSub(x, y) == FAdd(x, FNeg(y))

FMul(x, y) ==
  CASE isnan(x) \/ isnan(y) -> FNaN
    [] x.k = "inf" \/ y.k = "inf" ->
         (IF FIsZero(x) \/ FIsZero(y) \/ x.k = "fin" \/ y.k = "fin"
            THEN FNaN
            ELSE InfOf(SignMul(FSign(x), FSign(y))))
    [] x.k = "q" /\ y.k = "q" -> FQ(RMul(FRat(x), FRat(y)))
    [] FIsZero(x) \/ FIsZero(y) -> FInt(0)
    [] x.k = "q" /\ y.k = "irr" -> FIrr
    [] x.k = "irr" /\ y.k = "q" -> FIrr
    [] OTHER -> FFin

FDiv(x, y) ==
  CASE isnan(x) \/ isnan(y) -> FNaN
    [] x.k = "inf" /\ y.k = "inf" -> FNaN
    [] x.k = "inf" -> InfOf(SignMul(FSign(x), IF FIsZero(y) THEN 1 ELSE FSign(y)))
    [] y.k = "inf" -> FInt(0)
    [] FIsZero(y) ->
         (IF FIsZero(x) \/ x.k = "fin" THEN FNaN ELSE InfOf(FSign(x)))
    [] y.k = "fin" -> FNaN
    [] x.k = "q" /\ y.k = "q" -> FQ(RDiv(FRat(x), FRat(y)))
    [] FIsZero(x) -> FInt(0)
    [] x.k = "q" /\ y.k = "irr" -> FIrr
    [] x.k = "irr" /\ y.k = "q" -> FIrr
    [] OTHER -> FFin

\* sqrt(): NaN below zero, exact on the squares of rationals.
sqrt(x) ==
  CASE isnan(x) -> FNaN
    [] x.k = "inf" -> (IF x.n = 1 THEN x ELSE FNaN)
    [] x.k = "q" ->
         (IF x.n < 0 THEN FNaN
          ELSE IF IsSquare(x.n) /\ IsSquare(x.d)
                 THEN FQ(Rat(ISqrt(x.n), ISqrt(x.d)))
                 ELSE FIrr)
    [] OTHER -> FFin

\* hypot(): exact when x*x + y*y is the square of a rational.
hypot(x, y) ==
  CASE x.k = "inf" \/ y.k = "inf" -> FInf(1)
    [] isnan(x) \/ isnan(y) -> FNaN
    [] x.k = "q" /\ y.k = "q" -> sqrt(FAdd(FMul(x, x), FMul(y, y)))
    [] OTHER -> FFin

\* atan(): finite for every argument but NaN; atan(0) = 0.
atan(x) ==
  CASE isnan(x) -> FNaN
    [] FIsZero(x) -> FInt(0)
    [] OTHER -> FFin

(***************************************************************************)
(* Constants of the source                                                 *)
(***************************************************************************)
NEXT_ACTION_DEFAULT == 0
NEXT_ACTION_DWELL == 1
NEXT_ACTION_GO_HOME == 2

MOTION_MODE_RAPID_LINEAR == 0
MOTION_MODE_LINEAR == 1
MOTION_MODE_CW_ARC == 2
MOTION_MODE_CCW_ARC == 3
MOTION_MODE_CANCEL == 4

PROGRAM_FLOW_RUNNING == 0
PROGRAM_FLOW_PAUSED == 1
PROGRAM_FLOW_COMPLETED == 2

\* The status codes of gcode.h, by name; GCSTATUS_OK is the one that
\* `if (gc.status_code)` takes as "no error".
GCSTATUS_OK == "Ok"
GCSTATUS_BAD_NUMBER_FORMAT == "BadNumberFormat"
GCSTATUS_EXPECTED_COMMAND_LETTER == "ExpectedCommandLetter"
GCSTATUS_UNSUPPORTED_STATEMENT == "UnsupportedStatement"
GCSTATUS_FLOATING_POINT_ERROR == "FloatingPointError"

\* Axis indices: target[letter - 'X'], offset[letter - 'I'].
X_AXIS == 0
Y_AXIS == 1
Z_AXIS == 2
Axes == {X_AXIS, Y_AXIS, Z_AXIS}

\* The factor to_millimeters() multiplies by in inches mode: 25.4.
INCHES_PER_MM == Rat(254, 10)

\* settings.default_feed_rate and settings.default_seek_rate (per minute).
default_feed_rate == RInt(480)
default_seek_rate == RInt(480)

(***************************************************************************)
(* Text                                                                    *)
(***************************************************************************)
NUL == "NUL"
\* textline[counter]; the string ends with a 0.
CharAt(textline, counter) ==
  IF counter < Len(textline) THEN textline[counter + 1] ELSE NUL

UpperCase ==
  {"A", "B", "C", "D", "E", "F", "G", "H", "I", "J", "K", "L", "M",
   "N", "O", "P", "Q", "R", "S", "T", "U", "V", "W", "X", "Y", "Z"}
\* letter - 'I' and letter - 'X'
LetterIndex ==
  [c \in {"I", "J", "K", "X", "Y", "Z"} |->
     CASE c \in {"I", "X"} -> 0 [] c \in {"J", "Y"} -> 1 [] OTHER -> 2]

Digits == {"0", "1", "2", "3", "4", "5", "6", "7", "8", "9"}
DigitVal ==
  [c \in Digits |->
     CASE c = "0" -> 0 [] c = "1" -> 1 [] c = "2" -> 2 [] c = "3" -> 3
       [] c = "4" -> 4 [] c = "5" -> 5 [] c = "6" -> 6 [] c = "7" -> 7
       [] c = "8" -> 8 [] OTHER -> 9]

RECURSIVE Pow10(_)
Pow10(k) == IF k = 0 THEN 1 ELSE 10 * Pow10(k - 1)

\* The run of decimal digits at position i: where it ends, its value and
\* its length.
RECURSIVE ScanDigits(_, _, _, _)
ScanDigits(textline, i, acc, len) ==
  IF CharAt(textline, i) \in Digits
    THEN ScanDigits(textline, i + 1, 10 * acc + DigitVal[CharAt(textline, i)], len + 1)
    ELSE [end |-> i, acc |-> acc, len |-> len]

\* strtod(textline + start, &end) on decimal literals: an optional sign,
\* digits, an optional point and digits, at least one digit in all.  With
\* no conversion the value is 0 and end = start.  (The exponent, INF and
\* NAN forms need the letters E, N or A, which no line of the model holds.)
\* ip and fp are the digit runs before and after the point.
StrtodValue(textline, start, ip, fp) ==
  IF ip.len + fp.len = 0
    THEN [value |-> RZero, end |-> start]
    ELSE [value |->
            Rat((IF CharAt(textline, start) = "-" THEN -1 ELSE 1)
                  * (ip.acc * Pow10(fp.len) + fp.acc),
                Pow10(fp.len)),
          end |-> fp.end]

StrtodFraction(textline, start, ip) ==
  StrtodValue(textline, start, ip,
              IF CharAt(textline, ip.end) = "."
                THEN ScanDigits(textline, ip.end + 1, 0, 0)
                ELSE [end |-> ip.end, acc |-> 0, len |-> 0])

strtod(textline, start) ==
  StrtodFraction(textline, start,
                 ScanDigits(textline,
                            IF CharAt(textline, start) \in {"-", "+"}
                              THEN start + 1 ELSE start,
                            0, 0))

\* read_double(): FAIL(BAD_NUMBER_FORMAT) and 0 when strtod converts
\* nothing (sd.end = counter); *double_ptr is assigned in both cases.
ReadResult(counter, status, sd) ==
  IF sd.end = counter
    THEN [ok |-> FALSE, value |-> sd.value, counter |-> counter,
          status |-> GCSTATUS_BAD_NUMBER_FORMAT]
    ELSE [ok |-> TRUE, value |-> sd.value, counter |-> sd.end,
          status |-> status]

read_double(textline, counter, status) ==
  ReadResult(counter, status, strtod(textline, counter))

IsCommandLetter(c) == c \in UpperCase

\* next_statement(): 0 at the end of the string, on a character that is no
\* uppercase letter (FAIL) and on a bad number (FAIL via read_double, rd).
\* `letter` and `value` are what the caller's variables hold afterwards.
StatementResult(c, letter, value, counter, status, rd) ==
  IF c = NUL
    THEN [more |-> FALSE, letter |-> letter, value |-> value,
          counter |-> counter, status |-> status]
  ELSE IF ~IsCommandLetter(c)
    THEN [more |-> FALSE, letter |-> c, value |-> value,
          counter |-> counter, status |-> GCSTATUS_EXPECTED_COMMAND_LETTER]
  ELSE [more |-> rd.ok, letter |-> c, value |-> rd.value,
        counter |-> rd.counter, status |-> rd.status]

next_statement(textline, counter, letter, value, status) ==
  StatementResult(CharAt(textline, counter), letter, value, counter, status,
                  read_double(textline, counter + 1, status))

(***************************************************************************)
(* struct ParserState gc                                                   *)
(***************************************************************************)
\* select_plane with the third axis assigned from the second argument.
select_plane_slip(g, axis_0, axis_1, axis_2) ==
  [g EXCEPT !.plane_axis_0 = axis_0, !.plane_axis_1 = axis_1,
            !.plane_axis_2 = axis_1]

\* select_plane()
select_plane(g, axis_0, axis_1, axis_2) ==
  [g EXCEPT !.plane_axis_0 = axis_0, !.plane_axis_1 = axis_1,
            !.plane_axis_2 = axis_2]

\* clear_vector(): all three components zero.
clear_vector == [a \in Axes |-> RZero]

\* gc_init(): memset to 0, the default rates per second, plane XY,
\* absolute mode.
gc_init ==
  select_plane(
    [status_code |-> GCSTATUS_OK,
     motion_mode |-> MOTION_MODE_RAPID_LINEAR,
     inverse_feed_rate_mode |-> FALSE,
     inches_mode |-> FALSE,
     absolute_mode |-> TRUE,
     program_flow |-> PROGRAM_FLOW_RUNNING,
     spindle_direction |-> 0,
     feed_rate |-> RDiv(default_feed_rate, RInt(60)),
     seek_rate |-> RDiv(default_seek_rate, RInt(60)),
     position |-> clear_vector,
     tool |-> 0,
     spindle_speed |-> 0,
     plane_axis_0 |-> 0, plane_axis_1 |-> 0, plane_axis_2 |-> 0],
    X_AXIS, Y_AXIS, Z_AXIS)

\* to_millimeters without the conversion.
to_millimeters_asis(g, value) == value

\* to_millimeters()
to_millimeters(g, value) ==
  IF g.inches_mode THEN RMul(value, INCHES_PER_MM) ELSE value

\* theta(x, y): t = atan(x/fabs(y)), folded by the signs of y and of the
\* angle.  M_PI - t and -M_PI - t are finite exactly when t is.
ThetaFold(y, t) ==
  IF FSign(y) = 1 THEN t
  ELSE IF isnan(t) THEN FNaN ELSE FFin

theta(x, y) == ThetaFold(y, atan(FDiv(x, fabs(y))))

(***************************************************************************)
(* Calls to the collaborators, in the order gc_execute_line makes them.    *)
(* Every argument is written as a double of the arc solver's domain.       *)
(***************************************************************************)
Call(op, args) == [op |-> op, args |-> args]
FBool(b) == FInt(IF b THEN 1 ELSE 0)
VecArgs(v) == <<FQ(v[X_AXIS]), FQ(v[Y_AXIS]), FQ(v[Z_AXIS])>>

\* The local variables of gc_execute_line with gc, the calls made so far,
\* and whether (and what) the function has returned.
Frame(g) ==
  [gc |-> [g EXCEPT !.status_code = GCSTATUS_OK],
   counter |-> 0,
   letter |-> NUL,
   value |-> RZero,
   inverse_feed_rate |-> RInt(-1),
   radius_mode |-> FALSE,
   absolute_override |-> FALSE,
   next_action |-> NEXT_ACTION_DEFAULT,
   target |-> clear_vector,
   offset |-> [a \in Axes |-> FInt(0)],
   p |-> RZero,
   r |-> RZero,
   calls |-> <<>>,
   returned |-> FALSE,
   ret |-> GCSTATUS_OK]

ReturnWith(f, status) == [f EXCEPT !.returned = TRUE, !.ret = status]
FAIL(f, status) == [f EXCEPT !.gc.status_code = status]
Invoke(f, op, args) == [f EXCEPT !.calls = Append(@, Call(op, args))]

(***************************************************************************)
(* The '$' line: dump_settings or store_setting.                           *)
(***************************************************************************)
\* if(textline[counter] != 0) return UNSUPPORTED; store_setting(p, value);
DollarStore(textline, f) ==
  IF CharAt(textline, f.counter) # NUL
    THEN ReturnWith(f, GCSTATUS_UNSUPPORTED_STATEMENT)
    ELSE Invoke(f, "store_setting", <<FQ(f.p), FQ(f.value)>>)

\* read_double(textline, &counter, &value), rv its result
DollarValue(textline, f, rv) ==
  DollarStore(textline,
              [f EXCEPT !.counter = rv.counter, !.value = rv.value,
                        !.gc.status_code = rv.status])

\* if(textline[counter++] != '=') return UNSUPPORTED;
DollarEquals(textline, f) ==
  IF CharAt(textline, f.counter) # "="
    THEN ReturnWith([f EXCEPT !.counter = @ + 1],
                    GCSTATUS_UNSUPPORTED_STATEMENT)
    ELSE DollarValue(textline, f,
                     read_double(textline, f.counter + 1, f.gc.status_code))

\* read_double(textline, &counter, &p), rp its result
DollarIndex(textline, f, rp) ==
  DollarEquals(textline,
               [f EXCEPT !.counter = rp.counter, !.p = rp.value,
                         !.gc.status_code = rp.status])

DollarLine(textline, f) ==
  IF CharAt(textline, 1) = NUL
    THEN ReturnWith(Invoke([f EXCEPT !.counter = 1], "dump_settings", <<>>),
                    GCSTATUS_OK)
    ELSE DollarIndex(textline, f, read_double(textline, 1, f.gc.status_code))

(***************************************************************************)
(* Pass 1: commands                                                        *)
(***************************************************************************)
\* GCommand with G53 switching the positioning mode to absolute as well.
GCommand_g53(int_value, f) ==
  CASE int_value = 0 -> [f EXCEPT !.gc.motion_mode = MOTION_MODE_RAPID_LINEAR]
    [] int_value = 1 -> [f EXCEPT !.gc.motion_mode = MOTION_MODE_LINEAR]
    [] int_value = 2 -> [f EXCEPT !.gc.motion_mode = MOTION_MODE_CW_ARC]
    [] int_value = 3 -> [f EXCEPT !.gc.motion_mode = MOTION_MODE_CCW_ARC]
    [] int_value = 4 -> [f EXCEPT !.next_action = NEXT_ACTION_DWELL]
    [] int_value = 17 -> [f EXCEPT !.gc = select_plane(@, X_AXIS, Y_AXIS, Z_AXIS)]
    [] int_value = 18 -> [f EXCEPT !.gc = select_plane(@, X_AXIS, Z_AXIS, Y_AXIS)]
    [] int_value = 19 -> [f EXCEPT !.gc = select_plane(@, Y_AXIS, Z_AXIS, X_AXIS)]
    [] int_value = 20 -> [f EXCEPT !.gc.inches_mode = TRUE]
    [] int_value = 21 -> [f EXCEPT !.gc.inches_mode = FALSE]
    [] int_value \in {28, 30} -> [f EXCEPT !.next_action = NEXT_ACTION_GO_HOME]
    [] int_value = 53 ->
         [f EXCEPT !.absolute_override = TRUE, !.gc.absolute_mode = TRUE]
    [] int_value = 80 -> [f EXCEPT !.gc.motion_mode = MOTION_MODE_CANCEL]
    [] int_value = 90 -> [f EXCEPT !.gc.absolute_mode = TRUE]
    [] int_value = 91 -> [f EXCEPT !.gc.absolute_mode = FALSE]
    [] int_value = 93 -> [f EXCEPT !.gc.inverse_feed_rate_mode = TRUE]
    [] int_value = 94 -> [f EXCEPT !.gc.inverse_feed_rate_mode = FALSE]
    [] OTHER -> FAIL(f, GCSTATUS_UNSUPPORTED_STATEMENT)

\* GCommand with G91 toggling the positioning mode.
GCommand_toggle(int_value, f) ==
  CASE int_value = 0 -> [f EXCEPT !.gc.motion_mode = MOTION_MODE_RAPID_LINEAR]
    [] int_value = 1 -> [f EXCEPT !.gc.motion_mode = MOTION_MODE_LINEAR]
    [] int_value = 2 -> [f EXCEPT !.gc.motion_mode = MOTION_MODE_CW_ARC]
    [] int_value = 3 -> [f EXCEPT !.gc.motion_mode = MOTION_MODE_CCW_ARC]
    [] int_value = 4 -> [f EXCEPT !.next_action = NEXT_ACTION_DWELL]
    [] int_value = 17 -> [f EXCEPT !.gc = select_plane(@, X_AXIS, Y_AXIS, Z_AXIS)]
    [] int_value = 18 -> [f EXCEPT !.gc = select_plane(@, X_AXIS, Z_AXIS, Y_AXIS)]
    [] int_value = 19 -> [f EXCEPT !.gc = select_plane(@, Y_AXIS, Z_AXIS, X_AXIS)]
    [] int_value = 20 -> [f EXCEPT !.gc.inches_mode = TRUE]
    [] int_value = 21 -> [f EXCEPT !.gc.inches_mode = FALSE]
    [] int_value \in {28, 30} -> [f EXCEPT !.next_action = NEXT_ACTION_GO_HOME]
    [] int_value = 53 -> [f EXCEPT !.absolute_override = TRUE]
    [] int_value = 80 -> [f EXCEPT !.gc.motion_mode = MOTION_MODE_CANCEL]
    [] int_value = 90 -> [f EXCEPT !.gc.absolute_mode = TRUE]
    [] int_value = 91 -> [f EXCEPT !.gc.absolute_mode = ~f.gc.absolute_mode]
    [] int_value = 93 -> [f EXCEPT !.gc.inverse_feed_rate_mode = TRUE]
    [] int_value = 94 -> [f EXCEPT !.gc.inverse_feed_rate_mode = FALSE]
    [] OTHER -> FAIL(f, GCSTATUS_UNSUPPORTED_STATEMENT)

\* case 'G'
GCommand(int_value, f) ==
  CASE int_value = 0 -> [f EXCEPT !.gc.motion_mode = MOTION_MODE_RAPID_LINEAR]
    [] int_value = 1 -> [f EXCEPT !.gc.motion_mode = MOTION_MODE_LINEAR]
    [] int_value = 2 -> [f EXCEPT !.gc.motion_mode = MOTION_MODE_CW_ARC]
    [] int_value = 3 -> [f EXCEPT !.gc.motion_mode = MOTION_MODE_CCW_ARC]
    [] int_value = 4 -> [f EXCEPT !.next_action = NEXT_ACTION_DWELL]
    [] int_value = 17 -> [f EXCEPT !.gc = select_plane(@, X_AXIS, Y_AXIS, Z_AXIS)]
    [] int_value = 18 -> [f EXCEPT !.gc = select_plane(@, X_AXIS, Z_AXIS, Y_AXIS)]
    [] int_value = 19 -> [f EXCEPT !.gc = select_plane(@, Y_AXIS, Z_AXIS, X_AXIS)]
    [] int_value = 20 -> [f EXCEPT !.gc.inches_mode = TRUE]
    [] int_value = 21 -> [f EXCEPT !.gc.inches_mode = FALSE]
    [] int_value \in {28, 30} -> [f EXCEPT !.next_action = NEXT_ACTION_GO_HOME]
    [] int_value = 53 -> [f EXCEPT !.absolute_override = TRUE]
    [] int_value = 80 -> [f EXCEPT !.gc.motion_mode = MOTION_MODE_CANCEL]
    [] int_value = 90 -> [f EXCEPT !.gc.absolute_mode = TRUE]
    [] int_value = 91 -> [f EXCEPT !.gc.absolute_mode = FALSE]
    [] int_value = 93 -> [f EXCEPT !.gc.inverse_feed_rate_mode = TRUE]
    [] int_value = 94 -> [f EXCEPT !.gc.inverse_feed_rate_mode = FALSE]
    [] OTHER -> FAIL(f, GCSTATUS_UNSUPPORTED_STATEMENT)

\* MCommand with M3/M4 (spindle on) putting the program back to running.
MCommand_resume(int_value, f) ==
  CASE int_value \in {0, 1} -> [f EXCEPT !.gc.program_flow = PROGRAM_FLOW_PAUSED]
    [] int_value \in {2, 30, 60} ->
         [f EXCEPT !.gc.program_flow = PROGRAM_FLOW_COMPLETED]
    [] int_value = 3 -> [f EXCEPT !.gc.spindle_direction = 1,
                                  !.gc.program_flow = PROGRAM_FLOW_RUNNING]
    [] int_value = 4 -> [f EXCEPT !.gc.spindle_direction = -1,
                                  !.gc.program_flow = PROGRAM_FLOW_RUNNING]
    [] int_value = 5 -> [f EXCEPT !.gc.spindle_direction = 0]
    [] OTHER -> FAIL(f, GCSTATUS_UNSUPPORTED_STATEMENT)

\* case 'M'
MCommand(int_value, f) ==
  CASE int_value \in {0, 1} -> [f EXCEPT !.gc.program_flow = PROGRAM_FLOW_PAUSED]
    [] int_value \in {2, 30, 60} ->
         [f EXCEPT !.gc.program_flow = PROGRAM_FLOW_COMPLETED]
    [] int_value = 3 -> [f EXCEPT !.gc.spindle_direction = 1]
    [] int_value = 4 -> [f EXCEPT !.gc.spindle_direction = -1]
    [] int_value = 5 -> [f EXCEPT !.gc.spindle_direction = 0]
    [] OTHER -> FAIL(f, GCSTATUS_UNSUPPORTED_STATEMENT)

\* case 'T': gc.tool is a uint8_t.
TCommand(value, f) == [f EXCEPT !.gc.tool = trunc(value) % 256]

\* The body of the pass-1 loop for one statement.
Command(f) ==
  CASE f.letter = "G" -> GCommand(trunc(f.value), f)
    [] f.letter = "M" -> MCommand(trunc(f.value), f)
    [] f.letter = "T" -> TCommand(f.value, f)
    [] OTHER -> f

\* Pass1Break of a loop that goes on after a failing word.
Pass1Break_never(g) == FALSE

\* if(gc.status_code) break;
Pass1Break(g) == g.status_code # GCSTATUS_OK

\* One call of next_statement from the frame's cursor (st its result):
\* whether there was a statement, and the frame afterwards.
StatementFrame(f, st) ==
  [more |-> st.more,
   f |-> [f EXCEPT !.counter = st.counter, !.letter = st.letter,
                   !.value = st.value, !.gc.status_code = st.status]]

Statement(textline, f) ==
  StatementFrame(f, next_statement(textline, f.counter, f.letter, f.value,
                                   f.gc.status_code))

\* while(next_statement(...)) { switch ...; if(gc.status_code) break; }
RECURSIVE Pass1(_, _)
Pass1Next(textline, f) ==
  IF Pass1Break(f.gc) THEN f ELSE Pass1(textline, f)

\* Pass1Step of a loop that ends at the first word that is not a command.
Pass1Step_commandsFirst(textline, st) ==
  IF ~st.more \/ st.f.letter \notin {"G", "M", "T"} THEN st.f
  ELSE Pass1Next(textline, Command(st.f))

Pass1Step(textline, st) ==
  IF ~st.more THEN st.f ELSE Pass1Next(textline, Command(st.f))

Pass1(textline, f) == Pass1Step(textline, Statement(textline, f))

(***************************************************************************)
(* Pass 2: parameters                                                      *)
(***************************************************************************)
\* ResolveAxis with relative mode replacing the component too.
ResolveAxis_replace(g, absolute_override, old, unit_converted_value) ==
  unit_converted_value

\* case 'X': case 'Y': case 'Z': the new target component.
ResolveAxis(g, absolute_override, old, unit_converted_value) ==
  IF g.absolute_mode \/ absolute_override
    THEN unit_converted_value
    ELSE RAdd(old, unit_converted_value)

\* case 'F'
FeedWord(f, unit_converted_value) ==
  IF f.gc.inverse_feed_rate_mode
    THEN [f EXCEPT !.inverse_feed_rate = unit_converted_value]
    ELSE [f EXCEPT !.gc.feed_rate = RDiv(unit_converted_value, RInt(60))]

\* switch(letter) of pass 2.  gc.spindle_speed is an int16_t.
ParameterWord(f, unit_converted_value) ==
  CASE f.letter = "F" -> FeedWord(f, unit_converted_value)
    [] f.letter \in {"I", "J", "K"} ->
         [f EXCEPT !.offset[LetterIndex[f.letter]] = FQ(unit_converted_value)]
    [] f.letter = "P" -> [f EXCEPT !.p = f.value]
    [] f.letter = "R" -> [f EXCEPT !.r = unit_converted_value, !.radius_mode = TRUE]
    [] f.letter = "S" -> [f EXCEPT !.gc.spindle_speed = trunc(f.value)]
    [] f.letter \in {"X", "Y", "Z"} ->
         [f EXCEPT !.target[LetterIndex[f.letter]] =
            ResolveAxis(f.gc, f.absolute_override, @, unit_converted_value)]
    [] OTHER -> f

\* The body of the pass-2 loop for one statement.
Parameter(f) == ParameterWord(f, to_millimeters(f.gc, f.value))

RECURSIVE Pass2(_, _)
Pass2Step(textline, st) ==
  IF ~st.more THEN st.f ELSE Pass2(textline, Parameter(st.f))

Pass2(textline, f) == Pass2Step(textline, Statement(textline, f))

(***************************************************************************)
(* Dispatch                                                                *)
(***************************************************************************)
\* Update spindle state
SpindleUpdate(f) ==
  IF f.gc.spindle_direction # 0
    THEN Invoke(f, "spindle_run",
                <<FInt(f.gc.spindle_direction), FInt(f.gc.spindle_speed)>>)
    ELSE Invoke(f, "spindle_stop", <<>>)

\* (gc.inverse_feed_rate_mode) ? inverse_feed_rate : gc.feed_rate
Rate(f) ==
  IF f.gc.inverse_feed_rate_mode THEN f.inverse_feed_rate ELSE f.gc.feed_rate

\* mc_line(target[X_AXIS], target[Y_AXIS], target[Z_AXIS], rate, invert)
LineMove(f) ==
  Invoke(f, "mc_line",
         VecArgs(f.target)
           \o <<FQ(Rate(f)), FBool(f.gc.inverse_feed_rate_mode)>>)

\* FloatingPointFail with the position committed before the arc is solved.
FloatingPointFail_committed(f) ==
  ReturnWith([FAIL(f, GCSTATUS_FLOATING_POINT_ERROR) EXCEPT !.gc.position = f.target],
             GCSTATUS_FLOATING_POINT_ERROR)

\* FAIL(GCSTATUS_FLOATING_POINT_ERROR); return(gc.status_code);
FloatingPointFail(f) ==
  ReturnWith(FAIL(f, GCSTATUS_FLOATING_POINT_ERROR),
             GCSTATUS_FLOATING_POINT_ERROR)

\* The sign of h_x2_div_d: inverted for a counter clockwise arc, and
\* again for a negative r.
ArcSign(f, h) ==
  IF (f.gc.motion_mode = MOTION_MODE_CCW_ARC) # (f.r.n < 0) THEN FNeg(h) ELSE h

\* offset[plane_axis_0] = (x-(y*h))/2; offset[plane_axis_1] = (y+(x*h))/2;
\* after clear_vector(&offset).
ArcCentre(f, x, y, h_x2_div_d) ==
  [f EXCEPT !.offset =
     [[a \in Axes |-> FInt(0)] EXCEPT
        ![f.gc.plane_axis_0] = FDiv(FSub(x, FMul(y, h_x2_div_d)), FInt(2)),
        ![f.gc.plane_axis_1] = FDiv(FAdd(y, FMul(x, h_x2_div_d)), FInt(2))]]

\* if(isnan(h_x2_div_d)) { FAIL(...); return } ... (h: before the signs)
RadiusCheck(f, x, y, h) ==
  IF isnan(h) THEN FloatingPointFail(f) ELSE ArcCentre(f, x, y, ArcSign(f, h))

\* h_x2_div_d = -sqrt(4 * r*r - x*x - y*y)/hypot(x,y)
RadiusSolve(f, x, y, r) ==
  RadiusCheck(f, x, y,
    FDiv(FNeg(sqrt(FSub(FSub(FMul(FMul(FInt(4), r), r), FMul(x, x)),
                        FMul(y, y)))),
         hypot(x, y)))

\* if (radius_mode) { ... }: the centre of the circle of radius r through
\* the current position and the target, as an offset from the position.
RadiusToOffset(f) ==
  RadiusSolve(f,
    FQ(RSub(f.target[f.gc.plane_axis_0], f.gc.position[f.gc.plane_axis_0])),
    FQ(RSub(f.target[f.gc.plane_axis_1], f.gc.position[f.gc.plane_axis_1])),
    FQ(f.r))

\* if (theta_end < theta_start) { theta_end += 2*M_PI; }: te or te + 2*M_PI.
ThetaEnd(theta_start, te) ==
  IF isnan(te) \/ isnan(theta_start) THEN te ELSE FFin

\* angular_travel = theta_end - theta_start, less 2*M_PI if counter clockwise
AngularTravel(f, theta_start, theta_end) ==
  IF f.gc.motion_mode = MOTION_MODE_CCW_ARC
    THEN FSub(FSub(theta_end, theta_start), FFin)
    ELSE FSub(theta_end, theta_start)

\* mc_arc(...), then mc_line(...) to the target
ArcTrace(f, theta_start, theta_end) ==
  LineMove(
    Invoke(f, "mc_arc",
           <<theta_start,
             AngularTravel(f, theta_start, theta_end),
             hypot(f.offset[f.gc.plane_axis_0], f.offset[f.gc.plane_axis_1]),
             FQ(RSub(f.target[f.gc.plane_axis_2],
                     f.gc.position[f.gc.plane_axis_2])),
             FInt(f.gc.plane_axis_0), FInt(f.gc.plane_axis_1),
             FInt(f.gc.plane_axis_2),
             FQ(Rate(f)), FBool(f.gc.inverse_feed_rate_mode)>>))

ArcAngles(f, theta_start, te) ==
  ArcTrace(f, theta_start, ThetaEnd(theta_start, te))

\* The arc from the position to the target around position + offset.
ArcMove(f) ==
  ArcAngles(f,
    theta(FNeg(f.offset[f.gc.plane_axis_0]), FNeg(f.offset[f.gc.plane_axis_1])),
    theta(FSub(FSub(FQ(f.target[f.gc.plane_axis_0]), f.offset[f.gc.plane_axis_0]),
               FQ(f.gc.position[f.gc.plane_axis_0])),
          FSub(FSub(FQ(f.target[f.gc.plane_axis_1]), f.offset[f.gc.plane_axis_1]),
               FQ(f.gc.position[f.gc.plane_axis_1]))))

\* case MOTION_MODE_CW_ARC: case MOTION_MODE_CCW_ARC: (f after the radius
\* block)
ArcDispatch(f) == IF f.returned THEN f ELSE ArcMove(f)

\* switch (gc.motion_mode)
MotionDispatch(f) ==
  CASE f.gc.motion_mode = MOTION_MODE_CANCEL -> f
    [] f.gc.motion_mode \in {MOTION_MODE_RAPID_LINEAR, MOTION_MODE_LINEAR} ->
         LineMove(f)
    [] OTHER -> ArcDispatch(IF f.radius_mode THEN RadiusToOffset(f) ELSE f)

\* Dispatch with the dwell and go-home cases falling through to the motion.
Dispatch_fallThrough(f) ==
  CASE f.next_action = NEXT_ACTION_GO_HOME ->
         MotionDispatch(Invoke(f, "mc_go_home", <<>>))
    [] f.next_action = NEXT_ACTION_DWELL ->
         MotionDispatch(
           Invoke(f, "mc_dwell", <<FInt(trunc(RMul(f.p, RInt(1000))))>>))
    [] OTHER -> MotionDispatch(f)

\* switch (next_action)
Dispatch(f) ==
  CASE f.next_action = NEXT_ACTION_GO_HOME -> Invoke(f, "mc_go_home", <<>>)
    [] f.next_action = NEXT_ACTION_DWELL ->
         Invoke(f, "mc_dwell", <<FInt(trunc(RMul(f.p, RInt(1000))))>>)
    [] OTHER -> MotionDispatch(f)

\* memcpy(gc.position, target, ...); return(gc.status_code);
Commit(f) == ReturnWith([f EXCEPT !.gc.position = f.target], f.gc.status_code)

(***************************************************************************)
(* gc_execute_line(textline) from the parser state g: the frame at its     *)
(* return.                                                                 *)
(***************************************************************************)
\* if (gc.status_code) return(gc.status_code); after pass 1, after pass 2
ErrorsAfterPass1(g) == g.status_code # GCSTATUS_OK
ErrorsAfterPass2(g) == g.status_code # GCSTATUS_OK

\* After the dispatch: the arc solver has returned, or the commit.
AfterDispatch(f) == IF f.returned THEN f ELSE Commit(f)

\* AfterPass2 with the position committed before the dispatch.
AfterPass2_commitFirst(f) ==
  IF ErrorsAfterPass2(f.gc) THEN ReturnWith(f, f.gc.status_code)
  ELSE AfterDispatch(
         Dispatch(SpindleUpdate([f EXCEPT !.gc.position = f.target])))

AfterPass2(f) ==
  IF ErrorsAfterPass2(f.gc) THEN ReturnWith(f, f.gc.status_code)
  ELSE AfterDispatch(Dispatch(SpindleUpdate(f)))

\* counter = 0; clear_vector(offset); target = gc.position; pass 2 ...
SecondPass(textline, f) ==
  AfterPass2(Pass2(textline,
                   [f EXCEPT !.counter = 0,
                             !.offset = [a \in Axes |-> FInt(0)],
                             !.target = f.gc.position]))

AfterPass1(textline, f) ==
  IF ErrorsAfterPass1(f.gc) THEN ReturnWith(f, f.gc.status_code)
  ELSE SecondPass(textline, f)

FirstPass(textline, f) == AfterPass1(textline, Pass1(textline, f))

\* The '$' block has returned, or falls through to pass 1.
AfterDollar(textline, f) == IF f.returned THEN f ELSE FirstPass(textline, f)

\* Prefix with '(' skipped like '/', the rest of the line interpreted.
Prefix_skipParen(textline, f) ==
  CASE CharAt(textline, 0) \in {"(", "/"} ->
         FirstPass(textline, [f EXCEPT !.counter = 1])
    [] CharAt(textline, 0) = "$" -> AfterDollar(textline, DollarLine(textline, f))
    [] OTHER -> FirstPass(textline, f)

\* The prefixes '(', '/' and '$' (f: the frame at entry).
Prefix(textline, f) ==
  CASE CharAt(textline, 0) = "(" -> ReturnWith(f, f.gc.status_code)
    [] CharAt(textline, 0) = "/" -> FirstPass(textline, [f EXCEPT !.counter = 1])
    [] CharAt(textline, 0) = "$" -> AfterDollar(textline, DollarLine(textline, f))
    [] OTHER -> FirstPass(textline, f)

gc_execute_line(textline, g) == Prefix(textline, Frame(g))

(***************************************************************************)
(* The interpreter as a state machine.  The caller hands gc_execute_line   *)
(* one line at a time (a block: the words of the line, whose characters    *)
(* are the text) and takes its status before the next line.                *)
(*   gc     the parser state                                               *)
(*   pc     "idle": between lines; "returned": gc_execute_line has         *)
(*          returned and the caller has not yet taken the status           *)
(*   block  the line of the last call (<<>> when idle)                     *)
(*   prev   gc as it was when the last call began                          *)
(*   ret    the status the last call returned                              *)
(*   calls  the collaborator calls the last call made, in order            *)
(***************************************************************************)
VARIABLES gc, pc, block, prev, ret, calls
vars == <<gc, pc, block, prev, ret, calls>>

\* The characters of a block.
RECURSIVE Text(_)
Text(b) == IF Len(b) = 0 THEN <<>> ELSE Head(b) \o Text(Tail(b))

\* The blocks of at most n words over a set of words.
BlocksOf(words, n) == UNION {[1..k -> words] : k \in 0..n}

\* Bounds of the model: words per generated line, and the largest
\* coordinate (in millimeters) the interpreter is driven to.
MaxWords == 2
MaxCoord == 27

InRange(g) ==
  \A a \in Axes :
    /\ RLe(g.position[a], RInt(MaxCoord))
    /\ RLe(RInt(-MaxCoord), g.position[a])

Init ==
  /\ gc = gc_init
  /\ pc = "idle"
  /\ block = <<>>
  /\ prev = gc_init
  /\ ret = GCSTATUS_OK
  /\ calls = <<>>

\* gc_execute_line(Text(b)): the whole call.
ExecuteLine(b) ==
  /\ pc = "idle"
  /\ \E f \in {gc_execute_line(Text(b), gc)} :
       /\ InRange(f.gc)
       /\ gc' = f.gc
       /\ ret' = f.ret
       /\ calls' = f.calls
  /\ block' = b
  /\ prev' = gc
  /\ pc' = "returned"

\* The caller takes the status; the interpreter waits for the next line.
TakeStatus ==
  /\ pc = "returned"
  /\ pc' = "idle"
  /\ block' = <<>>
  /\ prev' = gc
  /\ ret' = GCSTATUS_OK
  /\ calls' = <<>>
  /\ UNCHANGED gc

\* gc_init() again (a reset).
GcInit ==
  /\ pc = "idle"
  /\ gc # gc_init
  /\ gc' = gc_init
  /\ prev' = gc_init
  /\ UNCHANGED <<pc, block, ret, calls>>

(***************************************************************************)
(* What the claims say of a block, read off its words.                     *)
(***************************************************************************)
WordLetter(w) == w[1]
\* The number after the letter of a well-formed word.
WordNumber(w) == strtod(w, 1).value
IsWord(w) ==
  /\ Len(w) >= 2
  /\ w[1] \in UpperCase
  /\ strtod(w, 1).end = Len(w)
IsGCode(w, codes) == IsWord(w) /\ w[1] = "G" /\ trunc(WordNumber(w)) \in codes
IsMCode(w, codes) == IsWord(w) /\ w[1] = "M" /\ trunc(WordNumber(w)) \in codes
HasWord(b, letter) == \E i \in 1..Len(b) : IsWord(b[i]) /\ b[i][1] = letter
HasGCode(b, codes) == \E i \in 1..Len(b) : IsGCode(b[i], codes)
HasMCode(b, codes) == \E i \in 1..Len(b) : IsMCode(b[i], codes)
CallsOf(ops) == SelectSeq(calls, LAMBDA c : c.op \in ops)
MotionOps == {"mc_line", "mc_arc", "mc_dwell", "mc_go_home"}
SpindleOps == {"spindle_run", "spindle_stop"}

(***************************************************************************)
(* Straight moves: G0/G1 with X/Y/Z words, under every positioning and     *)
(* unit mode.                                                              *)
(***************************************************************************)
LinearWords ==
  {<<"G", "0">>, <<"G", "1">>, <<"G", "9", "1">>, <<"G", "2", "0">>,
   <<"X", "1">>, <<"Z", "-", "2", "0">>}

\* G1 X10 Y0 F300
ScenarioLine ==
  <<<<"G", "1">>, <<"X", "1", "0">>, <<"Y", "0">>, <<"F", "3", "0", "0">>>>

LinearBlocks == BlocksOf(LinearWords, MaxWords) \cup {ScenarioLine}

NextLinear ==
  \/ \E b \in LinearBlocks : ExecuteLine(b)
  \/ TakeStatus
  \/ GcInit

SpecLinear == Init /\ [][NextLinear]_vars

\* A line made only of G0/G1 and X/Y/Z words, each axis named at most once.
IsLinearLine(b) ==
  /\ \A i \in 1..Len(b) :
       IsGCode(b[i], {0, 1}) \/ (IsWord(b[i]) /\ b[i][1] \in {"X", "Y", "Z"})
  /\ \A i, j \in 1..Len(b) : (i # j /\ b[i][1] \in {"X", "Y", "Z"}) => b[i][1] # b[j][1]

AxisLetter == [a \in Axes |-> CASE a = 0 -> "X" [] a = 1 -> "Y" [] OTHER -> "Z"]

\* The value of the word that names axis a, in millimeters under state g.
NamedValue(b, a, g) ==
  LET i == CHOOSE i \in 1..Len(b) : b[i][1] = AxisLetter[a]
  IN IF g.inches_mode THEN RMul(WordNumber(b[i]), Rat(254, 10))
                      ELSE WordNumber(b[i])

\* Absolute replaces, relative adds, an axis not named keeps the position.
ResolvedTarget(b, g) ==
  [a \in Axes |->
     IF ~HasWord(b, AxisLetter[a]) THEN g.position[a]
     ELSE IF g.absolute_mode THEN NamedValue(b, a, g)
     ELSE RAdd(g.position[a], NamedValue(b, a, g))]

Tokens ==
  {<<"G", "2">>, <<"G", "3">>, <<"X", "1", "0">>, <<"R", "1">>, <<"R", "5">>,
   <<"G", "7">>, <<"X">>,
   <<"/">>, <<"(">>, <<"$">>, <<"$", "4">>, <<"=", "5">>, <<"=">>}

\* G2 X10 Y0 R1, and $4=5 followed by a word
RadiusScenario ==
  <<<<"G", "2">>, <<"X", "1", "0">>, <<"Y", "0">>, <<"R", "1">>>>
TrailingSetting == <<<<"$", "4">>, <<"=", "5">>, <<"X", "1", "0">>>>

Blocks == BlocksOf(Tokens, MaxWords) \cup {RadiusScenario, TrailingSetting}

Next ==
  \/ \E b \in Blocks : ExecuteLine(b)
  \/ TakeStatus
  \/ GcInit

Spec == Init /\ [][Next]_vars

\* C1: if gc_execute_line returns a status other than Ok, the call made no
\* mc_line, mc_arc, mc_dwell, mc_go_home, spindle_run or spindle_stop.
C1_NoDispatchOnError ==
  (pc = "returned" /\ ret # GCSTATUS_OK) =>
     CallsOf(MotionOps \cup SpindleOps) = <<>>

\* C2: if gc_execute_line returns a status other than Ok, gc.position is
\* what it was before the call (so the position changes only on calls that
\* return Ok).
C2_PositionKeptOnError ==
  (pc = "returned" /\ ret # GCSTATUS_OK) => gc.position = prev.position

\* A call that failed after pass 2 had resolved a target away from the
\* position.
C2_Witness ==
  /\ pc = "returned" /\ ret = GCSTATUS_FLOATING_POINT_ERROR
  /\ HasWord(block, "X") /\ prev.position[X_AXIS] = RZero
  /\ gc.position = prev.position

\* What the caller and the collaborators see of a call: the status, the
\* parser state afterwards and the calls made.
Outcome(f) == [ret |-> f.ret, gc |-> f.gc, calls |-> f.calls]

\* C4: a line beginning with '/' is interpreted exactly like the same line
\* without the '/': the same status, the same state afterwards and the same
\* collaborator calls, from the same prior state.
C4_BlockDeleteIgnored ==
  (pc = "returned" /\ Len(block) > 0 /\ block[1] = <<"/">>) =>
     [ret |-> ret, gc |-> gc, calls |-> calls]
       = Outcome(gc_execute_line(Text(Tail(block)), prev))

\* The text is $<number>=<number> and nothing more.
WellFormedSetting(t) ==
  /\ CharAt(t, 0) = "$"
  /\ strtod(t, 1).end > 1
  /\ CharAt(t, strtod(t, 1).end) = "="
  /\ strtod(t, strtod(t, 1).end + 1).end > strtod(t, 1).end + 1
  /\ strtod(t, strtod(t, 1).end + 1).end = Len(t)

\* C5: a well-formed line $<index>=<value> calls store_setting(index, value)
\* exactly once and nothing else, changes no field of the parser state and
\* returns Ok; a bare $ calls dump_settings once and returns Ok.
C5_SettingLineOk ==
  /\ (pc = "returned" /\ WellFormedSetting(Text(block))) =>
       /\ ret = GCSTATUS_OK
       /\ calls = <<Call("store_setting",
                         <<FQ(strtod(Text(block), 1).value),
                           FQ(strtod(Text(block),
                                     strtod(Text(block), 1).end + 1).value)>>)>>
       /\ gc = [prev EXCEPT !.status_code = GCSTATUS_OK]
  /\ (pc = "returned" /\ Text(block) = <<"$">>) =>
       /\ ret = GCSTATUS_OK
       /\ calls = <<Call("dump_settings", <<>>)>>

\* C6: a line that starts with '$', is not the bare '$' and is not
\* well-formed returns UnsupportedStatement and never calls store_setting.
C6_MalformedSettingRejected ==
  (/\ pc = "returned" /\ CharAt(Text(block), 0) = "$"
   /\ Text(block) # <<"$">> /\ ~WellFormedSetting(Text(block))) =>
     /\ ret = GCSTATUS_UNSUPPORTED_STATEMENT
     /\ CallsOf({"store_setting"}) = <<>>

\* The last R word of a block, in millimeters under state g.
RadiusValue(b, g) ==
  LET i == CHOOSE i \in 1..Len(b) :
             b[i][1] = "R" /\ \A j \in (i + 1)..Len(b) : b[j][1] # "R"
  IN IF g.inches_mode THEN RMul(WordNumber(b[i]), Rat(254, 10))
                      ELSE WordNumber(b[i])

\* 4*r*r - x*x - y*y, with x, y the displacement from the position to the
\* target on the two axes of the plane.
RadiusMargin(b, g0, g) ==
  LET x == RSub(ResolvedTarget(b, g0)[g.plane_axis_0], g0.position[g.plane_axis_0])
      y == RSub(ResolvedTarget(b, g0)[g.plane_axis_1], g0.position[g.plane_axis_1])
      r == RadiusValue(b, g0)
  IN RSub(RMul(RInt(4), RMul(r, r)), RAdd(RMul(x, x), RMul(y, y)))

\* A line of well-formed words, each axis named at most once, that carries
\* an R word and is dispatched as a G2/G3 arc.
IsRadiusArc(b, g) ==
  /\ \A i \in 1..Len(b) : IsWord(b[i])
  /\ \A i, j \in 1..Len(b) :
       (i # j /\ b[i][1] \in {"X", "Y", "Z"}) => b[i][1] # b[j][1]
  /\ ~HasGCode(b, {4, 28, 30}) /\ ~HasGCode(b, {7})
  /\ HasWord(b, "R")
  /\ g.motion_mode \in {MOTION_MODE_CW_ARC, MOTION_MODE_CCW_ARC}

\* C10: a G2/G3 line with an R word fails with FloatingPointError (no
\* mc_arc, no mc_line, position unchanged) exactly when 4*r*r < x*x + y*y;
\* otherwise it returns Ok and theta_start, angular_travel, radius and depth
\* passed to mc_arc are finite.
C10_RadiusFeasibility ==
  (pc = "returned" /\ IsRadiusArc(block, gc)) =>
     IF RLt(RadiusMargin(block, prev, gc), RZero)
       THEN /\ ret = GCSTATUS_FLOATING_POINT_ERROR
            /\ CallsOf({"mc_arc", "mc_line"}) = <<>>
            /\ gc.position = prev.position
       ELSE /\ ret = GCSTATUS_OK
            /\ Len(CallsOf({"mc_arc"})) = 1
            /\ \A i \in 1..4 : isfinite(CallsOf({"mc_arc"})[1].args[i])

(***************************************************************************)
(* Pass 1 stopped by an unsupported G or M code, among words of both       *)
(* passes.                                                                 *)
(***************************************************************************)
AbortWords ==
  {<<"G", "2", "0">>, <<"T", "1">>, <<"M", "3">>, <<"G", "7">>, <<"M", "7">>,
   <<"X", "1">>, <<"F", "6", "0">>, <<"S", "2">>}

AbortBlocks == BlocksOf(AbortWords, MaxWords)

NextAbort ==
  \/ \E b \in AbortBlocks : ExecuteLine(b)
  \/ TakeStatus
  \/ GcInit

SpecAbort == Init /\ [][NextAbort]_vars

\* The G and M codes pass 1 knows.
SupportedG == {0, 1, 2, 3, 4, 17, 18, 19, 20, 21, 28, 30, 53, 80, 90, 91, 93, 94}
SupportedM == {0, 1, 2, 3, 4, 5, 30, 60}
IsUnsupported(w) ==
  \/ IsWord(w) /\ w[1] = "G" /\ trunc(WordNumber(w)) \notin SupportedG
  \/ IsWord(w) /\ w[1] = "M" /\ trunc(WordNumber(w)) \notin SupportedM

\* The words before the first unsupported word of a block.
BeforeFailing(b) ==
  SubSeq(b, 1, (CHOOSE i \in 1..Len(b) :
                  IsUnsupported(b[i]) /\ \A j \in 1..(i - 1) : ~IsUnsupported(b[j])) - 1)

\* The fields pass 1 sets.
Modal(g) ==
  [motion_mode |-> g.motion_mode, inches_mode |-> g.inches_mode,
   absolute_mode |-> g.absolute_mode,
   inverse_feed_rate_mode |-> g.inverse_feed_rate_mode,
   plane |-> <<g.plane_axis_0, g.plane_axis_1, g.plane_axis_2>>,
   program_flow |-> g.program_flow,
   spindle_direction |-> g.spindle_direction, tool |-> g.tool]

\* C7: when a line of well-formed words has a G or M word whose truncated
\* code is not supported, the call returns UnsupportedStatement and makes
\* no collaborator call; the modal fields are those the words before the
\* first such word leave (what they set stays, no later word has an
\* effect), and feed_rate, spindle_speed and position are unchanged.
C7_AbortKeepsEarlier ==
  (/\ pc = "returned"
   /\ \A i \in 1..Len(block) : IsWord(block[i])
   /\ \E i \in 1..Len(block) : IsUnsupported(block[i])) =>
     /\ ret = GCSTATUS_UNSUPPORTED_STATEMENT
     /\ calls = <<>>
     /\ Modal(gc) = Modal(gc_execute_line(Text(BeforeFailing(block)), prev).gc)
     /\ gc.feed_rate = prev.feed_rate
     /\ gc.spindle_speed = prev.spindle_speed
     /\ gc.position = prev.position

\* G20 then an unsupported word: the units stay switched to inches.
C7_Witness ==
  /\ pc = "returned" /\ ret = GCSTATUS_UNSUPPORTED_STATEMENT
  /\ Len(block) = 2 /\ block[1] = <<"G", "2", "0">> /\ IsUnsupported(block[2])
  /\ ~prev.inches_mode /\ gc.inches_mode
  /\ prev.position[X_AXIS] # RZero /\ gc.position = prev.position

(***************************************************************************)
(* Program flow: M0/M1 pause, M2/M30/M60 complete.                         *)
(***************************************************************************)
FlowWords ==
  {<<"M", "0">>, <<"M", "1">>, <<"M", "2">>, <<"M", "3", "0">>,
   <<"M", "6", "0">>, <<"M", "3">>, <<"M", "7">>, <<"X", "1">>}

FlowBlocks == BlocksOf(FlowWords, MaxWords)

NextFlow ==
  \/ \E b \in FlowBlocks : ExecuteLine(b)
  \/ TakeStatus
  \/ GcInit

SpecFlow == Init /\ [][NextFlow]_vars

\* C8 (as stated): program_flow is monotonic in the order Running < Paused
\* < Completed: no line takes it from Completed back to Paused or Running,
\* nor from Paused back to Running.
C8_FlowMonotonic ==
  pc = "returned" => gc.program_flow >= prev.program_flow

\* C8: no line takes program_flow back to Running once it is Paused or
\* Completed; a line that returns Ok and has an M0 or M1 word and no M2, M30
\* or M60 word leaves it Paused, also when it was Completed.
C8_FlowNeverResumes ==
  pc = "returned" =>
    /\ prev.program_flow # PROGRAM_FLOW_RUNNING =>
         gc.program_flow # PROGRAM_FLOW_RUNNING
    /\ (/\ ret = GCSTATUS_OK /\ HasMCode(block, {0, 1})
        /\ ~HasMCode(block, {2, 30, 60})) =>
         gc.program_flow = PROGRAM_FLOW_PAUSED

\* M0 or M1 after the program completed: paused again.
C8_Witness ==
  /\ pc = "returned" /\ ret = GCSTATUS_OK
  /\ prev.program_flow = PROGRAM_FLOW_COMPLETED
  /\ HasMCode(block, {0, 1})
  /\ gc.program_flow = PROGRAM_FLOW_PAUSED

(***************************************************************************)
(* Modal selectors: units, positioning, plane and feed rate mode.          *)
(***************************************************************************)
ModalTokens ==
  {<<"G", "2", "0">>, <<"G", "9", "1">>, <<"G", "1", "8">>, <<"G", "9", "3">>,
   <<"G", "5", "3">>, <<"G", "7">>, <<"X", "2", "7">>,
   <<"(">>, <<"/">>, <<"$">>}

ModalBlocks == BlocksOf(ModalTokens, MaxWords)

NextModal ==
  \/ \E b \in ModalBlocks : ExecuteLine(b)
  \/ TakeStatus
  \/ GcInit

SpecModal == Init /\ [][NextModal]_vars

\* C9: a call changes inches_mode only on a line containing G20/G21,
\* absolute_mode only on a line containing G90/G91, the plane axes only on
\* a line containing G17/G18/G19 and inverse_feed_rate_mode only on a line
\* containing G93/G94.
C9_SelectorsOwnCodes ==
  pc = "returned" =>
    /\ gc.inches_mode # prev.inches_mode => HasGCode(block, {20, 21})
    /\ gc.absolute_mode # prev.absolute_mode => HasGCode(block, {90, 91})
    /\ Modal(gc).plane # Modal(prev).plane => HasGCode(block, {17, 18, 19})
    /\ gc.inverse_feed_rate_mode # prev.inverse_feed_rate_mode =>
         HasGCode(block, {93, 94})

\* A G53 move under relative positioning, inverse feed rate and the XZ
\* plane: the move is absolute and every selector is kept.
C9_Witness ==
  /\ pc = "returned" /\ ret = GCSTATUS_OK
  /\ HasGCode(block, {53}) /\ HasWord(block, "X")
  /\ ~prev.absolute_mode /\ prev.inverse_feed_rate_mode
  /\ prev.plane_axis_1 = Z_AXIS
  /\ prev.position[X_AXIS] # RZero /\ gc.position = prev.position
  /\ Modal(gc) = Modal(prev)

(***************************************************************************)
(* Arcs: G2/G3 by offsets (I) and by radius (R), with depth (Z), under     *)
(* both feed rate modes.                                                   *)
(***************************************************************************)
ArcWords ==
  {<<"G", "2">>, <<"G", "3">>, <<"X", "1", "0">>, <<"Z", "2">>,
   <<"I", "5">>, <<"R", "5">>, <<"G", "9", "3">>, <<"F", "3">>}

\* G2 X10 Y0 I5 J0
ArcScenario ==
  <<<<"G", "2">>, <<"X", "1", "0">>, <<"Y", "0">>, <<"I", "5">>, <<"J", "0">>>>

ArcBlocks == BlocksOf(ArcWords, MaxWords) \cup {ArcScenario}

NextArc ==
  \/ \E b \in ArcBlocks : ExecuteLine(b)
  \/ TakeStatus
  \/ GcInit

SpecArc == Init /\ [][NextArc]_vars

\* A line of well-formed words without G4/G28/G30.
IsMotionLine(b) ==
  /\ \A i \in 1..Len(b) : IsWord(b[i])
  /\ ~HasGCode(b, {4, 28, 30})

\* C11: on every successful line dispatched as a G2/G3 arc the motion calls
\* are exactly one mc_arc followed by exactly one mc_line; the mc_line goes
\* to the resolved target of the line, both calls carry the same rate and
\* inverse-time flag, the arc is computed from the position before the call
\* (its depth is the target minus that position on the third plane axis)
\* and the position afterwards is the target; and G2X10Y0I5J0 from (0,0,0)
\* makes an arc of radius 5 and depth 0 and then a line to (10,0,0).
C11_ArcThenLine ==
  /\ (/\ pc = "returned" /\ ret = GCSTATUS_OK /\ IsMotionLine(block)
      /\ gc.motion_mode \in {MOTION_MODE_CW_ARC, MOTION_MODE_CCW_ARC}) =>
       /\ Len(CallsOf(MotionOps)) = 2
       /\ CallsOf(MotionOps)[1].op = "mc_arc"
       /\ CallsOf(MotionOps)[2].op = "mc_line"
       /\ SubSeq(CallsOf(MotionOps)[2].args, 1, 3)
            = VecArgs(ResolvedTarget(block, prev))
       /\ SubSeq(CallsOf(MotionOps)[1].args, 8, 9)
            = SubSeq(CallsOf(MotionOps)[2].args, 4, 5)
       /\ CallsOf(MotionOps)[1].args[4]
            = FQ(RSub(ResolvedTarget(block, prev)[gc.plane_axis_2],
                      prev.position[gc.plane_axis_2]))
       /\ gc.position = ResolvedTarget(block, prev)
  /\ (/\ pc = "returned" /\ block = ArcScenario
      /\ prev.position = [a \in Axes |-> RZero]
      /\ prev.absolute_mode /\ ~prev.inches_mode) =>
       /\ ret = GCSTATUS_OK
       /\ Len(CallsOf(MotionOps)) = 2
       /\ CallsOf(MotionOps)[1].op = "mc_arc"
       /\ isfinite(CallsOf(MotionOps)[1].args[1])
       /\ isfinite(CallsOf(MotionOps)[1].args[2])
       /\ CallsOf(MotionOps)[1].args[3] = FInt(5)
       /\ CallsOf(MotionOps)[1].args[4] = FInt(0)
       /\ CallsOf(MotionOps)[2].op = "mc_line"
       /\ SubSeq(CallsOf(MotionOps)[2].args, 1, 3) = <<FInt(10), FInt(0), FInt(0)>>
       /\ gc.position = (X_AXIS :> RInt(10)) @@ (Y_AXIS :> RZero) @@ (Z_AXIS :> RZero)

\* A helical arc: X and Z both move, from a position off the origin.
C11_Witness ==
  /\ pc = "returned" /\ ret = GCSTATUS_OK /\ IsMotionLine(block)
  /\ gc.motion_mode = MOTION_MODE_CCW_ARC
  /\ HasWord(block, "Z") /\ HasWord(block, "I")
  /\ prev.position[X_AXIS] # RZero /\ prev.position[Z_AXIS] = RZero
  /\ gc.position[Z_AXIS] = RInt(2)
  /\ Len(CallsOf({"mc_arc"})) = 1
  /\ CallsOf({"mc_arc"})[1].args[4] = FInt(2)

(***************************************************************************)
(* Units: G20/G21 between moves, in absolute and relative positioning.     *)
(***************************************************************************)
UnitWords ==
  {<<"G", "2", "0">>, <<"G", "2", "1">>, <<"G", "9", "1">>, <<"X", "1">>}

UnitBlocks == BlocksOf(UnitWords, MaxWords)

NextUnits ==
  \/ \E b \in UnitBlocks : ExecuteLine(b)
  \/ TakeStatus
  \/ GcInit

SpecUnits == Init /\ [][NextUnits]_vars

\* C12: the unit conversion is applied when a word is parsed and the stored
\* position is never rescaled: the line X1 in inches mode and absolute
\* positioning leaves position[X] = 25.4, and a line made only of G20/G21
\* words (so the G21 after that move) leaves the position as it was.
C12_ConvertedOnce ==
  /\ (/\ pc = "returned" /\ block = <<<<"X", "1">>>>
      /\ prev.inches_mode /\ prev.absolute_mode) =>
       /\ ret = GCSTATUS_OK
       /\ gc.position[X_AXIS] = Rat(254, 10)
  /\ (/\ pc = "returned" /\ Len(block) > 0
      /\ \A i \in 1..Len(block) : IsGCode(block[i], {20, 21})) =>
       /\ ret = GCSTATUS_OK
       /\ gc.position = prev.position

\* G21 after the move X1 made in inches mode from the origin: the position
\* is still 25.4.
C12_Witness ==
  /\ pc = "returned" /\ block = <<<<"G", "2", "1">>>>
  /\ prev.inches_mode /\ ~gc.inches_mode /\ gc.absolute_mode
  /\ prev.position[X_AXIS] = Rat(254, 10)
  /\ gc.position[X_AXIS] = Rat(254, 10)

\* C13: a line beginning with '(' returns Ok at once, whatever follows the
\* '(': no collaborator is called and every field of the parser state but
\* the status (motion mode, units, positioning, feed rate mode, plane,
\* program flow, spindle direction and speed, tool, rates, position) is as
\* it was before the call.
C13_CommentLine ==
  (pc = "returned" /\ Len(block) > 0 /\ block[1] = <<"(">>) =>
     /\ ret = GCSTATUS_OK
     /\ calls = <<>>
     /\ gc = [prev EXCEPT !.status_code = GCSTATUS_OK]

\* A comment holding G20, after a failed line, in a state away from the
\* initial one: nothing of it is applied.
C13_Witness ==
  /\ pc = "returned" /\ block = <<<<"(">>, <<"G", "2", "0">>>>
  /\ prev.status_code # GCSTATUS_OK
  /\ ~prev.inches_mode /\ ~prev.absolute_mode
  /\ prev.position[X_AXIS] # RZero
  /\ ~gc.inches_mode /\ ret = GCSTATUS_OK

(***************************************************************************)
(* Mode words alone: motion mode, plane, units, positioning and feed rate  *)
(* mode, between moves.                                                    *)
(***************************************************************************)
ModeWords ==
  {<<"G", "1", "8">>, <<"G", "2", "0">>, <<"G", "9", "1">>, <<"G", "9", "3">>,
   <<"G", "1">>, <<"G", "2">>, <<"G", "8", "0">>, <<"X", "2", "7">>}

ModeBlocks == BlocksOf(ModeWords, MaxWords)

NextModes ==
  \/ \E b \in ModeBlocks : ExecuteLine(b)
  \/ TakeStatus
  \/ GcInit

SpecModes == Init /\ [][NextModes]_vars

\* The modal G-codes.
ModalCodes == {0, 1, 2, 3, 80, 17, 18, 19, 20, 21, 90, 91, 93, 94}

\* A line made only of modal G-codes.
IsModalOnly(b) ==
  Len(b) > 0 /\ \A i \in 1..Len(b) : IsGCode(b[i], ModalCodes)

\* C14: after a line made only of modal G-codes, the same line executed
\* again at once returns Ok and leaves the whole parser state (modes and
\* position) as the first call left it.
C14_ModalIdempotent ==
  (pc = "returned" /\ IsModalOnly(block)) =>
     /\ ret = GCSTATUS_OK
     /\ gc_execute_line(Text(block), gc).ret = GCSTATUS_OK
     /\ gc_execute_line(Text(block), gc).gc = gc

\* A line that switched to arcs and changed another mode, off the origin:
\* the first call changed the state, the second would not.
C14_Witness ==
  /\ pc = "returned" /\ IsModalOnly(block) /\ Len(block) = 2
  /\ HasGCode(block, {2})
  /\ prev.motion_mode # MOTION_MODE_CW_ARC /\ gc.motion_mode = MOTION_MODE_CW_ARC
  /\ Modal(gc) # Modal([prev EXCEPT !.motion_mode = MOTION_MODE_CW_ARC])
  /\ prev.position[X_AXIS] # RZero
  /\ gc_execute_line(Text(block), gc).gc = gc

(***************************************************************************)
(* Feed rates: F words in both feed rate modes and both units.             *)
(***************************************************************************)
FeedWords ==
  {<<"G", "9", "3">>, <<"G", "9", "4">>, <<"G", "2", "0">>, <<"G", "1">>,
   <<"X", "1">>, <<"F", "1", "2", "0">>, <<"F", "0">>}

FeedBlocks == BlocksOf(FeedWords, MaxWords)

NextFeed ==
  \/ \E b \in FeedBlocks : ExecuteLine(b)
  \/ TakeStatus
  \/ GcInit

SpecFeed == Init /\ [][NextFeed]_vars

\* C15: in every state reached from gc_init, with positive default rates,
\* gc.feed_rate and gc.seek_rate are strictly positive.
C15_RatesPositive ==
  /\ RLt(RZero, gc.feed_rate)
  /\ RLt(RZero, gc.seek_rate)

(***************************************************************************)
(* One-shot actions: G4 (dwell) and G28/G30 (go home) among moves.         *)
(***************************************************************************)
ActionWords ==
  {<<"G", "4">>, <<"G", "2", "8">>, <<"G", "3", "0">>, <<"P", "1">>,
   <<"G", "1">>, <<"G", "2">>, <<"G", "8", "0">>, <<"X", "2", "7">>}

ActionBlocks == BlocksOf(ActionWords, MaxWords)

NextAction ==
  \/ \E b \in ActionBlocks : ExecuteLine(b)
  \/ TakeStatus
  \/ GcInit

SpecAction == Init /\ [][NextAction]_vars

\* A successful line of well-formed words.
IsSuccessfulLine(b) ==
  /\ pc = "returned" /\ ret = GCSTATUS_OK
  /\ \A i \in 1..Len(b) : IsWord(b[i])

\* On a line without G4/G28/G30 the persistent motion_mode decides the
\* dispatch.
MotionModeDecides ==
  /\ gc.motion_mode \in {MOTION_MODE_RAPID_LINEAR, MOTION_MODE_LINEAR} =>
       /\ Len(CallsOf(MotionOps)) = 1
       /\ CallsOf(MotionOps)[1].op = "mc_line"
  /\ gc.motion_mode \in {MOTION_MODE_CW_ARC, MOTION_MODE_CCW_ARC} =>
       /\ Len(CallsOf(MotionOps)) = 2
       /\ CallsOf(MotionOps)[1].op = "mc_arc"
  /\ gc.motion_mode = MOTION_MODE_CANCEL => CallsOf(MotionOps) = <<>>

\* C16 (as stated): a successful line containing G4 issues exactly one
\* mc_dwell, one containing G28/G30 exactly one mc_go_home, and neither
\* issues mc_line or mc_arc; a line that contains none of them is
\* dispatched by the persistent motion_mode.
C16_EachActionIssued ==
  /\ (IsSuccessfulLine(block) /\ HasGCode(block, {4})) =>
       /\ Len(CallsOf({"mc_dwell"})) = 1
       /\ CallsOf({"mc_line", "mc_arc"}) = <<>>
  /\ (IsSuccessfulLine(block) /\ HasGCode(block, {28, 30})) =>
       /\ Len(CallsOf({"mc_go_home"})) = 1
       /\ CallsOf({"mc_line", "mc_arc"}) = <<>>
  /\ (IsSuccessfulLine(block) /\ ~HasGCode(block, {4, 28, 30})) =>
       MotionModeDecides

\* The code of the last G4/G28/G30 word of a block.
LastAction(b) ==
  trunc(WordNumber(b[CHOOSE i \in 1..Len(b) :
                       /\ IsGCode(b[i], {4, 28, 30})
                       /\ \A j \in (i + 1)..Len(b) : ~IsGCode(b[j], {4, 28, 30})]))

\* C16: on a successful line of words the last G4/G28/G30 word decides:
\* if it is G4 the motion calls are exactly one mc_dwell, if it is G28/G30
\* exactly one mc_go_home, in both cases with no mc_line or mc_arc; a line
\* that contains none of them is dispatched by the persistent motion_mode.
C16_LastActionIssued ==
  /\ (IsSuccessfulLine(block) /\ HasGCode(block, {4, 28, 30})) =>
       /\ Len(CallsOf(MotionOps)) = 1
       /\ CallsOf(MotionOps)[1].op =
            (IF LastAction(block) = 4 THEN "mc_dwell" ELSE "mc_go_home")
  /\ (IsSuccessfulLine(block) /\ ~HasGCode(block, {4, 28, 30})) =>
       MotionModeDecides

\* A dwell on a line that also names an axis, while the motion mode is G1:
\* the dwell is issued and the move is not.
C16_Witness ==
  /\ IsSuccessfulLine(block)
  /\ HasGCode(block, {4}) /\ HasWord(block, "X")
  /\ gc.motion_mode = MOTION_MODE_LINEAR
  /\ prev.position[X_AXIS] = RZero
  /\ CallsOf(MotionOps) = <<Call("mc_dwell", <<FInt(0)>>)>>

\* The number of the last F word of a block.
FValue(b) ==
  WordNumber(b[CHOOSE i \in 1..Len(b) :
                 /\ IsWord(b[i]) /\ b[i][1] = "F"
                 /\ \A j \in (i + 1)..Len(b) : b[j][1] # "F"])

\* The rate and the inverse-time flag of a call of mc_line or mc_arc.
RateOf(c) == IF c.op = "mc_line" THEN c.args[4] ELSE c.args[8]
FlagOf(c) == IF c.op = "mc_line" THEN c.args[5] ELSE c.args[9]

\* C17: on a successful line with an F word, while inverse feed rate mode
\* is active every mc_line/mc_arc of the line gets the literal F value as
\* its rate (no unit conversion, the same in inches and millimeters) with
\* the inverse-time flag set, and gc.feed_rate is not changed; while it is
\* inactive gc.feed_rate becomes the unit-converted value divided by 60.  A
\* line without an F word keeps gc.feed_rate, and outside inverse feed rate
\* mode every move is made at gc.feed_rate.
C17_InverseTimeLiteral ==
  /\ (/\ IsSuccessfulLine(block) /\ HasWord(block, "F")
      /\ gc.inverse_feed_rate_mode) =>
       /\ \A i \in 1..Len(CallsOf({"mc_line", "mc_arc"})) :
            /\ RateOf(CallsOf({"mc_line", "mc_arc"})[i]) = FQ(FValue(block))
            /\ FlagOf(CallsOf({"mc_line", "mc_arc"})[i]) = FBool(TRUE)
       /\ gc.feed_rate = prev.feed_rate
  /\ (/\ IsSuccessfulLine(block) /\ HasWord(block, "F")
      /\ ~gc.inverse_feed_rate_mode) =>
       gc.feed_rate =
         RDiv(IF gc.inches_mode THEN RMul(FValue(block), Rat(254, 10))
                                ELSE FValue(block),
              RInt(60))
  /\ (IsSuccessfulLine(block) /\ ~HasWord(block, "F")) =>
       gc.feed_rate = prev.feed_rate
  /\ (IsSuccessfulLine(block) /\ ~gc.inverse_feed_rate_mode) =>
       \A i \in 1..Len(CallsOf({"mc_line", "mc_arc"})) :
         /\ RateOf(CallsOf({"mc_line", "mc_arc"})[i]) = FQ(gc.feed_rate)
         /\ FlagOf(CallsOf({"mc_line", "mc_arc"})[i]) = FBool(FALSE)

\* C18: whenever mc_line or mc_arc is called with the inverse-time flag
\* set, the line has an F word and the rate is the value read from it
\* (never the -1 of 'no inverse feed rate specified').
C18_InverseRateGiven ==
  pc = "returned" =>
    \A i \in 1..Len(CallsOf({"mc_line", "mc_arc"})) :
      FlagOf(CallsOf({"mc_line", "mc_arc"})[i]) = FBool(TRUE) =>
        /\ HasWord(block, "F")
        /\ RateOf(CallsOf({"mc_line", "mc_arc"})[i]) # FInt(-1)
        /\ RateOf(CallsOf({"mc_line", "mc_arc"})[i])
             \in {FQ(FValue(block)), FQ(RMul(FValue(block), Rat(254, 10)))}

\* C19: gc.position changes only on lines that dispatch a move: a call
\* that makes no mc_line (it failed, or dispatched only a dwell, only a
\* go-home, or nothing under motion mode Cancel) leaves the position as it
\* was, also when the line carries X/Y/Z words, and after a call that makes
\* one the position is the target of its last mc_line; so the position is
\* always the target of the most recent mc_line, or the initial position.
C19_PositionFollowsLine ==
  pc = "returned" =>
    IF CallsOf({"mc_line"}) = <<>>
      THEN gc.position = prev.position
      ELSE VecArgs(gc.position)
             = SubSeq(CallsOf({"mc_line"})[Len(CallsOf({"mc_line"}))].args, 1, 3)

(***************************************************************************)
(* Word order: mode words before and after the parameter words of a line.  *)
(***************************************************************************)
OrderWords ==
  {<<"G", "9", "1">>, <<"G", "2", "0">>, <<"G", "7">>, <<"X", "1">>,
   <<"S", "2">>}

OrderBlocks == BlocksOf(OrderWords, MaxWords)

NextOrder ==
  \/ \E b \in OrderBlocks : ExecuteLine(b)
  \/ TakeStatus
  \/ GcInit

SpecOrder == Init /\ [][NextOrder]_vars

\* The G/M/T words of a block in their order, and its parameter words in
\* theirs.
IsCommandWord(w) == w[1] \in {"G", "M", "T"}
CommandWords(b) == SelectSeq(b, IsCommandWord)
ParameterWords(b) == SelectSeq(b, LAMBDA w : ~IsCommandWord(w))

\* The reorderings of a block that keep the relative order of its G/M/T
\* words and the relative order of its parameter words.
Reorderings(b) ==
  {c \in [1..Len(b) -> {b[i] : i \in 1..Len(b)}] :
     CommandWords(c) = CommandWords(b) /\ ParameterWords(c) = ParameterWords(b)}

\* C20: for a line of well-formed words, every reordering that keeps the
\* relative order of the G/M/T words and that of the parameter words
\* returns, from the same prior state, the same status, ends in the same
\* state and makes the same collaborator calls.
C20_OrderIndependent ==
  (pc = "returned" /\ \A i \in 1..Len(block) : IsWord(block[i])) =>
     \A c \in Reorderings(block) :
       Outcome(gc_execute_line(Text(c), prev))
         = [ret |-> ret, gc |-> gc, calls |-> calls]

\* X1 before G91, from absolute positioning off the origin: the move is
\* relative all the same.
C20_Witness ==
  /\ pc = "returned" /\ ret = GCSTATUS_OK
  /\ block = <<<<"X", "1">>, <<"G", "9", "1">>>>
  /\ prev.absolute_mode /\ ~prev.inches_mode
  /\ prev.position[X_AXIS] = RInt(1)
  /\ gc.position[X_AXIS] = RInt(2)

(***************************************************************************)
(* Plane selection: G17/G18/G19 between arcs.                              *)
(***************************************************************************)
PlaneWords ==
  {<<"G", "1", "7">>, <<"G", "1", "8">>, <<"G", "1", "9">>, <<"G", "2">>,
   <<"X", "2", "7">>, <<"Z", "2", "7">>}

PlaneBlocks == BlocksOf(PlaneWords, MaxWords)

NextPlane ==
  \/ \E b \in PlaneBlocks : ExecuteLine(b)
  \/ TakeStatus
  \/ GcInit

SpecPlane == Init /\ [][NextPlane]_vars

\* The three planes: XY, XZ and YZ, each with its depth axis.
Planes ==
  {<<X_AXIS, Y_AXIS, Z_AXIS>>, <<X_AXIS, Z_AXIS, Y_AXIS>>,
   <<Y_AXIS, Z_AXIS, X_AXIS>>}

\* C21: in every state reached from gc_init the plane axes are one of
\* (X,Y,Z), (X,Z,Y), (Y,Z,X): three distinct indices within 0..2; and the
\* axes every mc_arc is called with are such a triple, the one of the
\* state the call leaves.
C21_PlaneIsPermutation ==
  /\ <<gc.plane_axis_0, gc.plane_axis_1, gc.plane_axis_2>> \in Planes
  /\ {gc.plane_axis_0, gc.plane_axis_1, gc.plane_axis_2} = Axes
  /\ \A i \in 1..Len(CallsOf({"mc_arc"})) :
       SubSeq(CallsOf({"mc_arc"})[i].args, 5, 7)
         = <<FInt(gc.plane_axis_0), FInt(gc.plane_axis_1), FInt(gc.plane_axis_2)>>

\* An arc in the YZ plane, selected after the XZ plane, with a depth along
\* X.
C21_Witness ==
  /\ pc = "returned" /\ ret = GCSTATUS_OK
  /\ HasGCode(block, {19}) /\ HasWord(block, "X")
  /\ prev.plane_axis_1 = Z_AXIS /\ prev.plane_axis_0 = X_AXIS
  /\ gc.motion_mode = MOTION_MODE_CW_ARC
  /\ <<gc.plane_axis_0, gc.plane_axis_1, gc.plane_axis_2>>
       = <<Y_AXIS, Z_AXIS, X_AXIS>>
  /\ Len(CallsOf({"mc_arc"})) = 1
  /\ CallsOf({"mc_arc"})[1].args[4] = FInt(27)

====
